---- MODULE Spec2Model ----
(***************************************************************************)
(* Model of connect-quota (src/quota.py): the quota collector (class       *)
(* Quota and the collection/filter stages of __main__) and the             *)
(* notification throttle (class Report: notify_users, check_last_mailed,   *)
(* mail, filter_full).                                                     *)
(*                                                                         *)
(* Text is a sequence of one-character strings.  A Python value that may   *)
(* be None is a sequence of length 0 (None) or 1 (the value).  Percentages *)
(* are kept in hundredths of a percent, the resolution of round(x, 2).     *)
(***************************************************************************)
EXTENDS Integers, Sequences, FiniteSets, TLC

VARIABLES
    \* ---- collector (__main__ lines 371-388, Quota) ----
    args,         \* parsed command line: [user, path, only_full]
    quotaBin,     \* the world seen by read_xfs_quota: [installed, stdout]
    cephDir,      \* the world seen by read_ceph_quota: [exists, attrs]
    mpc,          \* position of __main__
    ui,           \* index of the user being collected (for u in user)
    pi,           \* index of the target being read (for p in paths)
    quotas,       \* read_all_quotas' local list
    quota,        \* __main__'s list of collected records
    exc,          \* the exception that ended the run, "" if none
    readerCalls,  \* number of read_xfs_quota / read_ceph_quota invocations
    omitted,      \* number of targets whose reader returned no record
    lastRead,     \* the last reader invocation and what it returned
    lastFilter,   \* __main__'s filter_full call and what it returned
    \* ---- notification throttle (Report) ----
    now,          \* time.time(), in seconds
    marker,       \* mtime of /home/<user>/.quota, None if the file is absent
    npc,          \* position of the program between and inside runs
    pending,      \* records notify_users still has to visit in this run
    run,          \* number of the current run
    ticks,        \* number of clock steps taken
    sent,         \* per user, the notification mails posted so far
    lastPost,     \* the last requests.post made
    lastCheck     \* the last check_last_mailed call and what it returned

cvars == <<args, quotaBin, cephDir, mpc, ui, pi, quotas, quota, exc,
           readerCalls, omitted, lastRead, lastFilter>>
nvars == <<now, marker, npc, pending, run, ticks, sent, lastPost,
           lastCheck>>
vars == <<args, quotaBin, cephDir, mpc, ui, pi, quotas, quota, exc,
          readerCalls, omitted, lastRead, lastFilter,
          now, marker, npc, pending, run, ticks, sent, lastPost,
          lastCheck>>

None == <<>>
Some(x) == <<x>>

UserNames == {"alice", "bob"}

----------------------------------------------------------------------------
(* Text helpers: the str methods read_xfs_quota and read_all_quotas use.   *)

Digit == {"0", "1", "2", "3", "4", "5", "6", "7", "8", "9"}
Whitespace == {" ", "\n"}

DigitVal(c) ==
    CASE c = "0" -> 0 [] c = "1" -> 1 [] c = "2" -> 2 [] c = "3" -> 3
      [] c = "4" -> 4 [] c = "5" -> 5 [] c = "6" -> 6 [] c = "7" -> 7
      [] c = "8" -> 8 [] c = "9" -> 9

RECURSIVE LStrip(_)
LStrip(s) ==
    IF s # <<>> /\ Head(s) \in Whitespace THEN LStrip(Tail(s)) ELSE s

RECURSIVE RStrip(_)
RStrip(s) ==
    IF s # <<>> /\ s[Len(s)] \in Whitespace
    THEN RStrip(SubSeq(s, 1, Len(s) - 1))
    ELSE s

\* str.strip()
Strip(s) == RStrip(LStrip(s))

\* str.replace(c, "")
Remove(s, c) == SelectSeq(s, LAMBDA x : x # c)

\* str.split(sep): the pieces between the separators, empty pieces kept
RECURSIVE SplitOn(_, _, _, _)
SplitOn(s, sep, cur, acc) ==
    IF s = <<>> THEN Append(acc, cur)
    ELSE IF Head(s) = sep THEN SplitOn(Tail(s), sep, <<>>, Append(acc, cur))
    ELSE SplitOn(Tail(s), sep, Append(cur, Head(s)), acc)

Split(s, sep) == SplitOn(s, sep, <<>>, <<>>)

\* str.split(): split on runs of whitespace, no empty pieces
RECURSIVE SplitWsOn(_, _, _)
SplitWsOn(s, cur, acc) ==
    IF s = <<>> THEN (IF cur = <<>> THEN acc ELSE Append(acc, cur))
    ELSE IF Head(s) \in Whitespace
         THEN SplitWsOn(Tail(s), <<>>, IF cur = <<>> THEN acc ELSE Append(acc, cur))
         ELSE SplitWsOn(Tail(s), Append(cur, Head(s)), acc)

SplitWs(s) == SplitWsOn(s, <<>>, <<>>)

\* int(x) accepts an optional sign followed by digits; anything else is a
\* ValueError
IsIntLiteral(t) ==
    LET body == IF t # <<>> /\ Head(t) \in {"-", "+"} THEN Tail(t) ELSE t
    IN  body # <<>> /\ \A i \in 1..Len(body) : body[i] \in Digit

RECURSIVE DigitsVal(_, _)
DigitsVal(ds, acc) ==
    IF ds = <<>> THEN acc ELSE DigitsVal(Tail(ds), acc * 10 + DigitVal(Head(ds)))

IntOf(t) ==
    IF Head(t) = "-" THEN 0 - DigitsVal(Tail(t), 0)
    ELSE IF Head(t) = "+" THEN DigitsVal(Tail(t), 0)
    ELSE DigitsVal(t, 0)

----------------------------------------------------------------------------
(* round(used / limit * 100, 2) in hundredths of a percent, limit > 0:     *)
(* the nearest hundredth, a tie going to the even one.                     *)

FloorDiv(a, b) == IF a >= 0 THEN a \div b ELSE 0 - ((0 - a + b - 1) \div b)

RECURSIVE GCD(_, _)
GCD(a, b) == IF b = 0 THEN a ELSE GCD(b, a % b)

Abs(a) == IF a < 0 THEN 0 - a ELSE a

\* the same quotient cut off after the second decimal instead of rounded
PctTruncated(used, limit) ==
    LET g == GCD(Abs(used), limit)
    IN  FloorDiv((used \div g) * 10000, limit \div g)

\* used and limit are cancelled first: the products stay small
Pct(used, limit) ==
    LET g == GCD(Abs(used), limit)
        n == (used \div g) * 10000
        d == limit \div g
        f == FloorDiv(n, d)
        r == n - f * d
    IN  IF 2 * r < d THEN f
        ELSE IF 2 * r > d THEN f + 1
        ELSE IF f % 2 = 0 THEN f ELSE f + 1

----------------------------------------------------------------------------
(* What a reader hands back: a dict (rec = <<r>>, or <<>> for {}), None,   *)
(* or an exception that leaves the reader.                                 *)

Returned(r) == [kind |-> "dict", rec |-> <<r>>, exc |-> ""]
EmptyDict == [kind |-> "dict", rec |-> <<>>, exc |-> ""]
ReturnedNone == [kind |-> "none", rec |-> <<>>, exc |-> ""]
Raised(e) == [kind |-> "raise", rec |-> <<>>, exc |-> e]

\* Python truth value of what a reader returned (if q:)
Truthy(res) == res.kind = "dict" /\ res.rec # <<>>

\* bytes per block of /bin/quota's output
BlockSize == 1024

\* s.decode("utf-8").strip().replace("*", "").split("\n")[-1]
LastLine(stdout) ==
    LET lines == Split(Remove(Strip(stdout), "*"), "\n")
    IN  lines[Len(lines)]

xfs_record(user, path, tokens) ==
    LET blocks_used == tokens[1] * BlockSize
        blocks_soft == tokens[2] * BlockSize
        blocks_hard == tokens[3] * BlockSize
    IN  [user        |-> user,
         path        |-> path,
         filesystem  |-> "xfs",
         blocks_used |-> blocks_used,
         blocks_soft |-> blocks_soft,
         blocks_hard |-> blocks_hard,
         blocks_days |-> Some(tokens[4]),
         files_used  |-> tokens[5],
         files_soft  |-> tokens[6],
         files_hard  |-> tokens[7],
         files_days  |-> Some(tokens[8]),
         blocks_pct  |-> IF blocks_soft > 0
                         THEN Some(Pct(blocks_used, blocks_soft)) ELSE None,
         files_pct   |-> IF tokens[6] > 0
                         THEN Some(Pct(tokens[5], tokens[6])) ELSE None]

read_xfs_quota(user, path) ==
    IF ~quotaBin.installed THEN EmptyDict             \* FileNotFoundError
    ELSE
      LET words == SplitWs(LastLine(quotaBin.stdout))
      IN  IF \E i \in 1..Len(words) : ~IsIntLiteral(words[i])
          THEN EmptyDict                              \* ValueError
          ELSE IF Len(words) < 8
          THEN Raised("IndexError")                   \* tokens[7]
          ELSE Returned(xfs_record(user, path,
                                   [i \in 1..Len(words) |-> IntOf(words[i])]))

\* the order in which read_ceph_quota reads the attributes
CephKeys == <<"max_bytes", "rbytes", "max_files", "rfiles">>

\* the first attribute whose read fails, 0 if all four succeed
RECURSIVE FirstBadKey(_, _)
FirstBadKey(attrs, i) ==
    IF i > Len(CephKeys) THEN 0
    ELSE IF attrs[CephKeys[i]] = None \/ ~IsIntLiteral(attrs[CephKeys[i]][1])
    THEN i
    ELSE FirstBadKey(attrs, i + 1)

ceph_record(user, path, max_bytes, rbytes, max_files, rfiles) ==
    [user        |-> user,
     path        |-> path,
     filesystem  |-> "ceph",
     blocks_used |-> rbytes,
     blocks_soft |-> max_bytes,
     blocks_hard |-> max_bytes,
     blocks_days |-> None,
     files_used  |-> rfiles,
     files_soft  |-> max_files,
     files_hard  |-> max_files,
     files_days  |-> None,
     blocks_pct  |-> IF max_bytes > 0 THEN Some(Pct(rbytes, max_bytes)) ELSE None,
     files_pct   |-> IF max_files > 0 THEN Some(Pct(rfiles, max_files)) ELSE None]

read_ceph_quota(user, path) ==
    IF ~cephDir.exists THEN ReturnedNone              \* os.stat fails
    ELSE
      LET bad == FirstBadKey(cephDir.attrs, 1)
          val(k) == IntOf(cephDir.attrs[k][1])
      IN  IF bad # 0
          THEN IF cephDir.attrs[CephKeys[bad]] = None
               THEN EmptyDict                         \* KeyError
               ELSE Raised("ValueError")              \* int() outside a handler
          ELSE Returned(ceph_record(user, path, val("max_bytes"), val("rbytes"),
                                    val("max_files"), val("rfiles")))

----------------------------------------------------------------------------
(* Report.filter_full: q[key] > 100.  Comparing None with a number is a    *)
(* TypeError in Python 3 (setup.py: python_requires >= 3.6), and only      *)
(* KeyError is handled.                                                    *)

OverThreshold == 10000   \* 100 percent, in hundredths

RECURSIVE filter_loop(_, _, _)
filter_loop(qs, key, newlist) ==
    IF qs = <<>> THEN [exc |-> "", list |-> newlist]
    ELSE LET q == Head(qs)
         IN  IF key \notin DOMAIN q
             THEN filter_loop(Tail(qs), key, newlist)         \* KeyError, logged
             ELSE IF q[key] = None
             THEN [exc |-> "TypeError", list |-> <<>>]
             ELSE IF q[key][1] > OverThreshold
             THEN filter_loop(Tail(qs), key, Append(newlist, q))
             ELSE filter_loop(Tail(qs), key, newlist)

filter_full(qs, key) == filter_loop(qs, key, <<>>)

----------------------------------------------------------------------------
(* The inputs of a collection run.                                         *)

MaxTargets == 2     \* longest --path list

RECURSIVE Dec(_)
Dec(n) ==
    IF n < 0 THEN <<"-">> \o Dec(0 - n)
    ELSE IF n < 10 THEN <<SubSeq(<<"0", "1", "2", "3", "4", "5", "6", "7", "8", "9">>,
                                 n + 1, n + 1)[1]>>
    ELSE Dec(n \div 10) \o Dec(n % 10)

RECURSIVE Words(_)
Words(ws) ==
    IF ws = <<>> THEN <<>>
    ELSE IF Len(ws) = 1 THEN ws[1]
    ELSE ws[1] \o <<" ">> \o Words(Tail(ws))

Numbers(ns) == Words([i \in 1..Len(ns) |-> Dec(ns[i])])

Header == <<"F", "i", "l", "e", "s", "y", "s", "t", "e", "m", " ",
            "b", "l", "o", "c", "k", "s", "\n">>

Output(line) == Header \o <<" ">> \o line \o <<"\n">>

ExampleLine == Numbers(<<100, 200, 300, 0, 5, 10, 20, 0>>)

\* what /bin/quota may print: the last line of each output
QuotaLines ==
    { ExampleLine,
      Numbers(<<300, 200, 300, 0, 5, 10, 20, 0>>),
      Words(<<Dec(300) \o <<"*">>, Dec(200), Dec(300), Dec(6),
              Dec(5), Dec(10), Dec(20), Dec(0)>>),
      Numbers(<<100, 0, 0, 0, 5, 0, 0, 0>>),
      Numbers(<<2, 3, 4, 0, 1, 3, 4, 0>>),
      Numbers(<<0 - 5, 200, 300, 0, 5, 10, 20, 0>>),
      Words(<<Dec(300), Dec(200), Dec(300), <<"6", "d", "a", "y", "s">>,
              Dec(5), Dec(10), Dec(20), Dec(0)>>),
      Numbers(<<100, 200, 300>>) }

QuotaBins ==
    {[installed |-> FALSE, stdout |-> <<>>], [installed |-> TRUE, stdout |-> <<>>]}
    \cup {[installed |-> TRUE, stdout |-> Output(l)] : l \in QuotaLines}

Attrs(max_bytes, rbytes, max_files, rfiles) ==
    [max_bytes |-> max_bytes, rbytes |-> rbytes,
     max_files |-> max_files, rfiles |-> rfiles]

CephDirs ==
    {[exists |-> FALSE, attrs |-> Attrs(None, None, None, None)]}
    \cup {[exists |-> TRUE, attrs |-> a] : a \in
            { Attrs(Some(Dec(200)), Some(Dec(100)), Some(Dec(10)), Some(Dec(5))),
              Attrs(Some(Dec(200)), Some(Dec(300)), Some(Dec(10)), Some(Dec(5))),
              Attrs(Some(Dec(0)), Some(Dec(100)), Some(Dec(0)), Some(Dec(5))),
              Attrs(Some(Dec(3)), Some(Dec(2)), Some(Dec(3)), Some(Dec(1))),
              Attrs(Some(Dec(200)), Some(Dec(0 - 5)), Some(Dec(10)), Some(Dec(5))),
              Attrs(Some(Dec(200)), Some(Dec(100)), Some(Dec(10)), None),
              Attrs(Some(Dec(200)), Some(Dec(100)), Some(<<"x">>), Some(Dec(5))) }}

Home == <<"/", "h", "o", "m", "e">>
Public == <<"/", "p", "u", "b">>
Xfs == <<"x", "f", "s">>
Ceph == <<"c", "e", "p", "h">>

\* --path arguments: two recognised kinds, an unrecognised kind, no colon
TargetStrings ==
    { Home \o <<":">> \o Xfs,
      Public \o <<":">> \o Ceph,
      Public \o <<":">> \o <<"n", "f", "s">>,
      Public }

UserLists ==
    {<<u>> : u \in UserNames}
    \cup {<<u, v>> : <<u, v>> \in {w \in UserNames \X UserNames : w[1] # w[2]}}

TargetLists ==
    UNION {[1..n -> TargetStrings] : n \in 1..MaxTargets}

\* "sub in s"
Contains(s, sub) ==
    \E i \in 0..(Len(s) - Len(sub)) : SubSeq(s, i + 1, i + Len(sub)) = sub

NoRead == [reader |-> "", user |-> "", path |-> <<>>, res |-> EmptyDict]
NoFilter == [called |-> FALSE, input |-> <<>>, exc |-> "", output |-> <<>>]

----------------------------------------------------------------------------
(* The collector: __main__ lines 371-388 around Quota.read_all_quotas.     *)

InitCollector ==
    /\ args \in [user : UserLists, path : TargetLists, only_full : BOOLEAN]
    /\ quotaBin \in QuotaBins
    /\ cephDir \in CephDirs
    /\ mpc = "collect"
    /\ ui = 1
    /\ pi = 1
    /\ quotas = <<>>
    /\ quota = <<>>
    /\ exc = ""
    /\ readerCalls = 0
    /\ omitted = 0
    /\ lastRead = NoRead
    /\ lastFilter = NoFilter

IdleCollector ==
    /\ args = [user |-> <<>>, path |-> <<>>, only_full |-> FALSE]
    /\ quotaBin = [installed |-> FALSE, stdout |-> <<>>]
    /\ cephDir = [exists |-> FALSE, attrs |-> Attrs(None, None, None, None)]
    /\ mpc = "off"
    /\ ui = 1
    /\ pi = 1
    /\ quotas = <<>>
    /\ quota = <<>>
    /\ exc = ""
    /\ readerCalls = 0
    /\ omitted = 0
    /\ lastRead = NoRead
    /\ lastFilter = NoFilter

\* which reader read_all_quotas picks for a filesystem kind
Reader(fs) ==
    IF Contains(fs, Xfs) THEN "xfs"
    ELSE IF Contains(fs, Ceph) THEN "ceph"
    ELSE ""

\* one pass of "for p in paths" for the user at hand; the pass that ends the
\* list returns to __main__, which extends its list and takes the next user
ReadTarget ==
    /\ mpc = "collect"
    /\ LET u == args.user[ui]
           s == Split(args.path[pi], ":")
       IN  IF Len(s) < 2
           THEN \* s[1] raises IndexError; logged and raised again
                /\ mpc' = "raised"
                /\ exc' = "IndexError"
                /\ UNCHANGED <<ui, pi, quotas, quota, readerCalls, omitted, lastRead>>
           ELSE
             LET path == s[1]
                 kind == Reader(s[2])
                 res  == IF kind = "xfs" THEN read_xfs_quota(u, path)
                         ELSE IF kind = "ceph" THEN read_ceph_quota(u, path)
                         ELSE EmptyDict
                 got  == IF Truthy(res) THEN Append(quotas, res.rec[1]) ELSE quotas
             IN  /\ readerCalls' = IF kind = "" THEN readerCalls ELSE readerCalls + 1
                 /\ lastRead' = IF kind = "" THEN lastRead
                                ELSE [reader |-> kind, user |-> u, path |-> path,
                                      res |-> res]
                 /\ IF res.kind = "raise"
                    THEN /\ mpc' = "raised"
                         /\ exc' = res.exc
                         /\ UNCHANGED <<ui, pi, quotas, quota, omitted>>
                    ELSE /\ omitted' = IF Truthy(res) THEN omitted ELSE omitted + 1
                         /\ exc' = exc
                         /\ IF pi < Len(args.path)
                            THEN /\ pi' = pi + 1
                                 /\ quotas' = got
                                 /\ UNCHANGED <<ui, quota, mpc>>
                            ELSE /\ quota' = quota \o got
                                 /\ quotas' = <<>>
                                 /\ pi' = 1
                                 /\ ui' = ui + 1
                                 /\ mpc' = IF ui < Len(args.user)
                                           THEN "collect" ELSE "filter"
    /\ UNCHANGED <<args, quotaBin, cephDir, lastFilter>>

\* __main__ lines 379-383: --only-full
FilterStage ==
    /\ mpc = "filter"
    /\ IF args.only_full
       THEN LET r == filter_full(quota, "blocks_pct")
            IN  /\ lastFilter' = [called |-> TRUE, input |-> quota,
                                  exc |-> r.exc, output |-> r.list]
                /\ IF r.exc # ""
                   THEN /\ mpc' = "raised"
                        /\ exc' = r.exc
                        /\ quota' = quota
                   ELSE /\ quota' = r.list
                        /\ mpc' = IF Len(r.list) = 0 THEN "exit0" ELSE "report"
                        /\ exc' = exc
       ELSE /\ mpc' = "report"
            /\ UNCHANGED <<quota, exc, lastFilter>>
    /\ UNCHANGED <<args, quotaBin, cephDir, ui, pi, quotas, readerCalls, omitted,
                   lastRead>>

----------------------------------------------------------------------------
(* The notification throttle: Report.check_last_mailed, Report.mail and    *)
(* Report.notify_users, and the --mailto branch of __main__.               *)

week == 604800      \* 1 week in seconds

MaxTicks == 2       \* clock steps in a behaviour
MaxRuns == 3        \* program runs in a behaviour
MaxRecs == 2        \* longest record list handed to notify_users

\* how far the clock moves between two runs: just under the window, or the
\* window.  A run is short next to the window: within it the clock stands.
Steps == {week - 1, week}

\* the fields of a quota record that notify_users and filter_full read
NotifyRecords ==
    {[user |-> r[1], path |-> r[2], blocks_pct |-> r[3]] :
        r \in {<<"alice", Home, Some(15000)>>, <<"alice", Public, Some(15000)>>,
               <<"bob", Home, Some(15000)>>, <<"bob", Public, Some(5000)>>,
               <<"alice", Public, None>>}}

RecordLists == UNION {[1..n -> NotifyRecords] : n \in 0..MaxRecs}

HttpStatus == {200, 401}

NoCheck == [user |-> "", at |-> 0, before |-> None, ret |-> FALSE]

\* check_last_mailed touching the marker on every call
check_last_mailed_touch_always(user) ==
    LET created == IF marker[user] = None THEN Some(now) ELSE marker[user]
        delta   == now - created[1]
    IN  [ret |-> delta >= week, mtime |-> Some(now)]

\* check_last_mailed never touching an existing marker
check_last_mailed_no_touch(user) ==
    LET created == IF marker[user] = None THEN Some(now) ELSE marker[user]
        delta   == now - created[1]
    IN  [ret |-> delta >= week, mtime |-> created]

\* Report.check_last_mailed(user) at time now: what it returns and the
\* mtime it leaves on /home/<user>/.quota (a missing file is created first)
check_last_mailed(user) ==
    LET created == IF marker[user] = None THEN Some(now) ELSE marker[user]
        delta   == now - created[1]
    IN  IF delta >= week
        THEN [ret |-> TRUE, mtime |-> Some(now)]
        ELSE [ret |-> FALSE, mtime |-> created]

\* requests.post: the request as it leaves the program, key telling whether
\* MAILGUN_API_KEY was set
Post(kind, key) == [made |-> TRUE, kind |-> kind, key |-> key]

NoPost == [made |-> FALSE, kind |-> "", key |-> FALSE]

\* Report.mail: a missing key is logged and the POST is made all the same;
\* the status the endpoint answers is logged and returned
mail(user, key, status) == <<Post("notify", key)>>

\* the loop body putting the old marker back when no mail got through
notify_one_rollback(q, forward, key, status) ==
    LET c == check_last_mailed(q.user)
        delivered == c.ret /\ forward /\ status = 200
    IN  [check |-> c,
         mtime |-> IF c.ret /\ ~delivered THEN marker[q.user] ELSE c.mtime,
         sent  |-> IF c.ret /\ forward THEN mail(q.user, key, status) ELSE <<>>]

\* the body of notify_users' loop for one over-quota record: the marker it
\* leaves and the requests it makes (forward: whether /home/<user>/.forward
\* exists; key: whether MAILGUN_API_KEY is set; status: the endpoint's answer)
notify_one(q, forward, key, status) ==
    LET c == check_last_mailed(q.user)
    IN  [check |-> c,
         mtime |-> c.mtime,
         sent  |-> IF c.ret /\ forward THEN mail(q.user, key, status) ELSE <<>>]

InitThrottle ==
    /\ now = 0
    /\ marker = [u \in UserNames |-> None]
    /\ npc = "idle"
    /\ pending = <<>>
    /\ run = 0
    /\ ticks = 0
    /\ sent = [u \in UserNames |-> <<>>]
    /\ lastPost = NoPost
    /\ lastCheck = NoCheck

IdleThrottle ==
    /\ now = 0
    /\ marker = [u \in UserNames |-> None]
    /\ npc = "off"
    /\ pending = <<>>
    /\ run = 0
    /\ ticks = 0
    /\ sent = [u \in UserNames |-> <<>>]
    /\ lastPost = NoPost
    /\ lastCheck = NoCheck

\* time passes between two runs
Tick ==
    /\ npc = "idle"
    /\ ticks < MaxTicks
    /\ \E dt \in Steps : now' = now + dt
    /\ ticks' = ticks + 1
    /\ UNCHANGED <<marker, npc, pending, run, sent, lastPost, lastCheck>>

\* a run with --notify-users starts: notify_users filters its argument
StartNotify ==
    /\ npc = "idle"
    /\ run < MaxRuns
    /\ run' = run + 1
    /\ \E records \in RecordLists :
         LET r == filter_full(records, "blocks_pct")
         IN  IF r.exc # "" \/ r.list = <<>>
             THEN UNCHANGED <<npc, pending>>     \* TypeError, or nobody is full
             ELSE /\ npc' = "notify"
                  /\ pending' = r.list
    /\ UNCHANGED <<now, marker, ticks, sent, lastPost, lastCheck>>

\* one pass of "for q in quota" in notify_users
NotifyStep ==
    /\ npc = "notify"
    /\ \E forward \in BOOLEAN, key \in BOOLEAN, status \in HttpStatus :
         LET q == Head(pending)
             n == notify_one(q, forward, key, status)
         IN  /\ marker' = [marker EXCEPT ![q.user] = n.mtime]
             /\ IF n.sent = <<>>
                THEN UNCHANGED <<sent, lastPost>>
                ELSE /\ lastPost' = n.sent[1]
                     /\ sent' = [sent EXCEPT ![q.user] =
                                   Append(@, [at |-> now, run |-> run])]
             /\ lastCheck' = [user |-> q.user, at |-> now,
                              before |-> marker[q.user], ret |-> n.check.ret]
    /\ pending' = Tail(pending)
    /\ npc' = IF Tail(pending) = <<>> THEN "idle" ELSE "notify"
    /\ UNCHANGED <<now, run, ticks>>

\* a run with --mailto: __main__ lines 390-412
SummaryMail ==
    /\ npc = "idle"
    /\ run < MaxRuns
    /\ run' = run + 1
    /\ \E key \in BOOLEAN, status \in HttpStatus :
         lastPost' = IF key THEN Post("summary", key)
                     ELSE lastPost                \* exit(1)
    /\ UNCHANGED <<now, marker, npc, pending, ticks, sent, lastCheck>>

----------------------------------------------------------------------------

Init == InitThrottle /\ IdleCollector

Next ==
    \/ Tick /\ UNCHANGED cvars
    \/ StartNotify /\ UNCHANGED cvars
    \/ NotifyStep /\ UNCHANGED cvars
    \/ SummaryMail /\ UNCHANGED cvars

Spec == Init /\ [][Next]_vars

InitCollect == InitCollector /\ IdleThrottle

NextCollect ==
    \/ ReadTarget /\ UNCHANGED nvars
    \/ FilterStage /\ UNCHANGED nvars

SpecCollect == InitCollect /\ [][NextCollect]_vars

----------------------------------------------------------------------------
(* Properties of the collector, checked under SpecCollect.                 *)

NoColon(target) == Len(Split(target, ":")) < 2

\* every record the run holds: collected, being collected, or just returned
Records ==
    {quota[i] : i \in 1..Len(quota)} \cup {quotas[i] : i \in 1..Len(quotas)}
    \cup {lastRead.res.rec[i] : i \in 1..Len(lastRead.res.rec)}

\* h hundredths is a nearest hundredth to used / limit * 100
Nearest(h, used, limit) ==
    LET g == GCD(Abs(used), limit)
        d == limit \div g
    IN  2 * Abs(h * d - (used \div g) * 10000) <= d

PctOf(pct, used, limit) ==
    /\ limit > 0 => pct # None /\ Nearest(pct[1], used, limit)
    /\ limit = 0 => pct = None

\* C4: filter_full(records, "blocks_pct") returns, and returns exactly the
\* records whose blocks_pct is not null and above 100, in their order; a null
\* blocks_pct neither gets a record in nor stops the filter.
C4_FilterFull ==
    lastFilter.called =>
        /\ lastFilter.exc = ""
        /\ lastFilter.output =
             SelectSeq(lastFilter.input,
                       LAMBDA q : q.blocks_pct # None /\ q.blocks_pct[1] > 100 * 100)

\* the read failures the collector is to survive, for the read just made
ListedFailure ==
    \/ /\ lastRead.reader = "xfs"
       /\ \/ ~quotaBin.installed
          \/ LET words == SplitWs(LastLine(quotaBin.stdout))
             IN  \/ \E i \in 1..Len(words) : ~IsIntLiteral(words[i])
                 \/ Len(words) < 8
    \/ /\ lastRead.reader = "ceph"
       /\ \/ ~cephDir.exists
          \/ /\ \E i \in 1..Len(CephKeys) : cephDir.attrs[CephKeys[i]] = None
             /\ \A i \in 1..Len(CephKeys) :
                    cephDir.attrs[CephKeys[i]] # None
                        => IsIntLiteral(cephDir.attrs[CephKeys[i]][1])

\* C5: a read that fails for a missing quota command, a non-numeric token, a
\* short line, a missing per-user directory or a missing attribute raises
\* nothing: the collection goes on.
C5_FailSoft ==
    ListedFailure => lastRead.res.kind # "raise" /\ mpc # "raised"

\* C6: with a target that has no colon anywhere in the list, no reader is
\* ever invoked, no record is collected and the run does not get past
\* collection.
C6_FailFast ==
    (\E i \in 1..Len(args.path) : NoColon(args.path[i])) =>
        /\ readerCalls = 0
        /\ quota = <<>> /\ quotas = <<>>
        /\ mpc \in {"collect", "raised"}

\* C7: every record has blocks_used >= 0 and files_used >= 0.
C7_NonNegative ==
    \A r \in Records : r.blocks_used >= 0 /\ r.files_used >= 0

\* C8: blocks_pct and files_pct of every record are round(used / limit * 100, 2)
\* against the soft limit (xfs) or the hard limit (ceph) when that limit is
\* positive and null when it is 0; a zero limit still yields a record; the
\* tokens 100 200 300 0 5 10 20 0 give 102400, 204800 and 50.0.
C8_Percentages ==
    /\ \A r \in Records :
         /\ PctOf(r.blocks_pct, r.blocks_used,
                  IF r.filesystem = "xfs" THEN r.blocks_soft ELSE r.blocks_hard)
         /\ PctOf(r.files_pct, r.files_used,
                  IF r.filesystem = "xfs" THEN r.files_soft ELSE r.files_hard)
    /\ lastRead.reader = "xfs" /\ quotaBin.stdout = Output(ExampleLine) =>
         /\ Truthy(lastRead.res)
         /\ lastRead.res.rec[1].blocks_used = 102400
         /\ lastRead.res.rec[1].blocks_soft = 204800
         /\ lastRead.res.rec[1].blocks_pct = Some(5000)
    /\ /\ lastRead.reader = "xfs"
       /\ quotaBin.stdout = Output(Numbers(<<100, 0, 0, 0, 5, 0, 0, 0>>))
       => /\ Truthy(lastRead.res)
          /\ lastRead.res.rec[1].blocks_used = 100 * 1024
          /\ lastRead.res.rec[1].blocks_pct = None
          /\ lastRead.res.rec[1].files_pct = None
    /\ /\ lastRead.reader = "ceph"
       /\ cephDir.exists
       /\ cephDir.attrs = Attrs(Some(Dec(0)), Some(Dec(100)), Some(Dec(0)), Some(Dec(5)))
       => /\ Truthy(lastRead.res)
          /\ lastRead.res.rec[1].blocks_used = 100
          /\ lastRead.res.rec[1].blocks_pct = None
          /\ lastRead.res.rec[1].files_pct = None

\* a run that collected an xfs record with a rounded percentage and a ceph
\* record with a zero limit
C8_Witness ==
    /\ mpc = "filter"
    /\ \E r \in Records :
         r.filesystem = "xfs" /\ r.blocks_soft = 3 * 1024 /\ r.blocks_pct = Some(6667)
    /\ \E r \in Records :
         r.filesystem = "ceph" /\ r.blocks_hard = 0 /\ r.blocks_pct = None

----------------------------------------------------------------------------
(* Properties of the notification throttle, checked under Spec.            *)

\* the step is a pass of notify_users' loop
Notifying == npc = "notify" /\ pending' # pending

Recent(u) == marker[u] # None /\ now - marker[u][1] < week

\* C1: a check_last_mailed call that finds no marker returns true and leaves
\* a marker stamped with the time of the call.
C1_FirstAttempt ==
    lastCheck.user # "" /\ lastCheck.before = None =>
        /\ lastCheck.ret
        /\ marker[lastCheck.user] = Some(lastCheck.at)

C2_LastCall ==
    lastCheck.user # "" /\ lastCheck.before # None =>
        LET age == lastCheck.at - lastCheck.before[1]
        IN  /\ age < week => /\ ~lastCheck.ret
                             /\ marker[lastCheck.user] = lastCheck.before
            /\ age > week => /\ lastCheck.ret
                             /\ marker[lastCheck.user] = Some(lastCheck.at)

C2_OnlyTime ==
    \A u \in UserNames :
        Recent(u) /\ ~Recent(u)' => now' > now /\ marker'[u] = marker[u]

\* C2: with a marker present, check_last_mailed returns false and leaves the
\* marker alone when it is younger than a week, and returns true and stamps
\* it with the current time when it is older; a recently notified user becomes
\* cooled only by the clock moving.
C2_ExistingMarker == []C2_LastCall /\ [][C2_OnlyTime]_vars

\* a call found a marker older than a week, returned true and stamped it
C2_Witness ==
    /\ lastCheck.user # ""
    /\ lastCheck.before # None
    /\ lastCheck.at - lastCheck.before[1] > week
    /\ lastCheck.ret
    /\ marker[lastCheck.user] = Some(lastCheck.at)

C3_Apart ==
    \A u \in UserNames : \A i, j \in 1..Len(sent[u]) :
        i < j => /\ sent[u][j].at - sent[u][i].at >= week
                 /\ sent[u][j].run # sent[u][i].run

C3_Gated ==
    \A u \in UserNames :
        sent'[u] # sent[u] =>
            /\ Notifying
            /\ lastCheck'.user = u /\ lastCheck'.ret /\ lastCheck'.at = now

\* C3: a mail goes out for a user only in a pass where check_last_mailed
\* returned true for that user, two mails for the same user are at least a
\* week apart, and no run mails the same user twice.
C3_Cooldown == []C3_Apart /\ [][C3_Gated]_vars

\* a user mailed in two runs, the later one holding another over-quota record
\* of that user still to visit
C3_Witness ==
    \E u \in UserNames :
        /\ Len(sent[u]) >= 2
        /\ sent[u][Len(sent[u])].run = run
        /\ npc = "notify"
        /\ Head(pending).user = u

\* C9: no POST is made to the mail endpoint while MAILGUN_API_KEY is unset.
C9_NoPostWithoutKey == lastPost.made => lastPost.key

C10_Stamped ==
    Notifying /\ lastCheck'.ret => marker'[lastCheck'.user] = Some(now)

C10_Kept ==
    \A u \in UserNames :
        marker[u] # None /\ now' - marker[u][1] < week => marker'[u] = marker[u]

C10_Suppressed ==
    Notifying /\ Recent(Head(pending).user) =>
        ~lastCheck'.ret /\ sent' = sent /\ lastPost' = lastPost

\* C10: the pass in which check_last_mailed returned true leaves the marker at
\* the time of the call whether or not a mail was posted and whatever the
\* endpoint answered; the marker is not changed for the next week, and every
\* attempt for that user in that week, the same run included, posts nothing.
C10_NoRollback == [][C10_Stamped /\ C10_Kept /\ C10_Suppressed]_vars

\* check_last_mailed returned true, no mail was posted, and the marker still
\* shows the time of that call later within the week
C10_Witness ==
    /\ lastCheck.ret
    /\ marker[lastCheck.user] = Some(lastCheck.at)
    /\ \A i \in 1..Len(sent[lastCheck.user]) :
           sent[lastCheck.user][i].at # lastCheck.at
    /\ now > lastCheck.at
    /\ now - lastCheck.at < week

====
